---- MODULE Spec2Model ----
(***************************************************************************)
(* Model of the event-to-stream bridge of the LLM adapter layer:           *)
(*   - class AsyncEventQueue<T>        (queue operators push, complete,   *)
(*     fail, next and the specification SpecQueue that drives one queue)  *)
(*   - copilot_sdk_streaming           (session event handler, abort,     *)
(*     performCleanup; specification Spec)                                 *)
(* A queue is a record holding the fields of the class.  Two history      *)
(* fields are added to it: `settled`, the promise settlements the queue    *)
(* has performed (what the consumer observes), and `warned`, the values    *)
(* whose eviction was reported by console.warn.                            *)
(***************************************************************************)
EXTENDS Integers, Sequences, FiniteSets, TLC

\* ---------------------------------------------------------------- bounds
\* largest capacity given to a queue constructor
MaxCapacity == 2
\* producer calls (push / complete / fail) made on the queue in SpecQueue
MaxCalls == 4
\* pulls (iterator next() calls) made on one queue
MaxPulls == 3
\* pulls made on the text queue of a streaming call in Spec
MaxStreamPulls == 2
\* pulls made on the reasoning queue of a streaming call in Spec
MaxReasoningPulls == 1
\* session events delivered in Spec
MaxEvents == 3
\* caller cleanup() calls in Spec
MaxCleanupCalls == 2
\* caller abort() calls in Spec
MaxAbortCalls == 1
\* errors passed to the onError callback of one ai_sdk_streaming call
MaxProviderErrors == 2
\* get_provider calls made on one plugin in SpecProvider
MaxProviderCalls == 2

\* ---------------------------------------------------------------- values
\* `error: Error | null = null`
NoError == "null"
\* the value of an end-of-sequence result ({ value: undefined, done: true })
Undefined == "undefined"
\* errors a producer can pass to fail()
Errors == {"E1", "E2"}

\* Array.prototype.shift(): removes the first element, a no-op on []
Shift(s) == IF s = <<>> THEN s ELSE Tail(s)

\* s without its first n elements
Drop(s, n) == IF n >= Len(s) THEN <<>> ELSE SubSeq(s, n + 1, Len(s))

\* one promise settlement: pull p is resolved with {value, done:false},
\* resolved with {undefined, done:true}, or rejected with an error
Settle(p, k, v) == [pull |-> p, kind |-> k, value |-> v]

\* new AsyncEventQueue(maxSize)
NewQueue(cap) ==
    [queue |-> <<>>, resolvers |-> <<>>, rejecters |-> <<>>,
     done |-> FALSE, error |-> NoError, maxSize |-> cap,
     settled |-> <<>>, warned |-> <<>>]

\* ------------------------------------------------------------------ push
\* push with the `if (this.done) return` guard left out
pushNoGuard(q, v) ==
    IF Len(q.resolvers) > 0
    THEN [q EXCEPT !.resolvers = Shift(@), !.rejecters = Shift(@),
                   !.settled = Append(@, Settle(Head(q.resolvers), "value", v))]
    ELSE [q EXCEPT !.queue = Append(q.queue, v)]

\* push that does not remove the resolver it has just called
pushKeepResolver(q, v) ==
    IF q.done THEN q
    ELSE IF Len(q.resolvers) > 0
    THEN [q EXCEPT !.settled = Append(@, Settle(Head(q.resolvers), "value", v))]
    ELSE IF Len(q.queue) >= q.maxSize
         THEN [q EXCEPT !.queue = Append(Shift(q.queue), v),
                        !.warned = Append(@, Head(q.queue))]
         ELSE [q EXCEPT !.queue = Append(q.queue, v)]

\* push without the `this.rejecters.shift()` of the handoff branch
pushKeepRejecter(q, v) ==
    IF q.done THEN q
    ELSE IF Len(q.resolvers) > 0
    THEN [q EXCEPT !.resolvers = Shift(@),
                   !.settled = Append(@, Settle(Head(q.resolvers), "value", v))]
    ELSE IF Len(q.queue) >= q.maxSize
         THEN [q EXCEPT !.queue = Append(Shift(q.queue), v),
                        !.warned = Append(@, Head(q.queue))]
         ELSE [q EXCEPT !.queue = Append(q.queue, v)]

\* push that tests `>` where the code tests `>=`
pushOffByOne(q, v) ==
    IF q.done THEN q
    ELSE IF Len(q.resolvers) > 0
    THEN [q EXCEPT !.resolvers = Shift(@), !.rejecters = Shift(@),
                   !.settled = Append(@, Settle(Head(q.resolvers), "value", v))]
    ELSE IF Len(q.queue) > q.maxSize
         THEN [q EXCEPT !.queue = Append(Shift(q.queue), v),
                        !.warned = Append(@, Head(q.queue))]
         ELSE [q EXCEPT !.queue = Append(q.queue, v)]

\* push(value)
push(q, v) ==
    IF q.done THEN q
    ELSE IF Len(q.resolvers) > 0
    THEN [q EXCEPT !.resolvers = Shift(@), !.rejecters = Shift(@),
                   !.settled = Append(@, Settle(Head(q.resolvers), "value", v))]
    ELSE IF Len(q.queue) >= q.maxSize
         THEN [q EXCEPT !.queue = Append(Shift(q.queue), v),
                        !.warned = IF q.queue = <<>> THEN @
                                   ELSE Append(@, Head(q.queue))]
         ELSE [q EXCEPT !.queue = Append(q.queue, v)]

\* -------------------------------------------------------------- complete
\* the settlements complete() makes: every pending resolver, oldest first
RECURSIVE ResolveAll(_)
ResolveAll(rs) ==
    IF rs = <<>> THEN <<>>
    ELSE <<Settle(Head(rs), "done", Undefined)>> \o ResolveAll(Tail(rs))

\* complete that sets the flag and leaves the pending consumers alone
completeNoDrain(q) == [q EXCEPT !.done = TRUE]

\* complete that also forgets a stored error
completeClearsError(q) ==
    [q EXCEPT !.done = TRUE,
              !.error = NoError,
              !.settled = @ \o ResolveAll(q.resolvers),
              !.rejecters = Drop(@, Len(q.resolvers)),
              !.resolvers = <<>>]

\* complete()
complete(q) ==
    [q EXCEPT !.done = TRUE,
              !.settled = @ \o ResolveAll(q.resolvers),
              !.rejecters = Drop(@, Len(q.resolvers)),
              !.resolvers = <<>>]

\* ------------------------------------------------------------------ fail
\* the settlements fail(e) makes: every pending rejecter, oldest first
RECURSIVE RejectAll(_, _)
RejectAll(rs, e) ==
    IF rs = <<>> THEN <<>>
    ELSE <<Settle(Head(rs), "error", e)>> \o RejectAll(Tail(rs), e)

\* fail(error)
fail(q, e) ==
    [q EXCEPT !.error = e,
              !.done = TRUE,
              !.settled = @ \o RejectAll(q.rejecters, e),
              !.resolvers = Drop(@, Len(q.rejecters)),
              !.rejecters = <<>>]

\* ------------------------------------------------------------------ next
\* next that looks at the error before the buffer
nextErrorFirst(q, p) ==
    IF q.error # NoError
    THEN [q EXCEPT !.settled = Append(@, Settle(p, "error", q.error))]
    ELSE IF Len(q.queue) > 0
    THEN [q EXCEPT !.queue = Tail(@),
                   !.settled = Append(@, Settle(p, "value", Head(q.queue)))]
    ELSE IF q.done
    THEN [q EXCEPT !.settled = Append(@, Settle(p, "done", Undefined))]
    ELSE [q EXCEPT !.resolvers = Append(@, p), !.rejecters = Append(@, p)]

\* next that takes the newest buffered value (pop where the code shifts)
nextPop(q, p) ==
    IF Len(q.queue) > 0
    THEN [q EXCEPT !.queue = SubSeq(@, 1, Len(@) - 1),
                   !.settled = Append(@, Settle(p, "value", q.queue[Len(q.queue)]))]
    ELSE IF q.error # NoError
    THEN [q EXCEPT !.settled = Append(@, Settle(p, "error", q.error))]
    ELSE IF q.done
    THEN [q EXCEPT !.settled = Append(@, Settle(p, "done", Undefined))]
    ELSE [q EXCEPT !.resolvers = Append(@, p), !.rejecters = Append(@, p)]

\* the iterator's next(), called as pull number p
next(q, p) ==
    IF Len(q.queue) > 0
    THEN [q EXCEPT !.queue = Tail(@),
                   !.settled = Append(@, Settle(p, "value", Head(q.queue)))]
    ELSE IF q.error # NoError
    THEN [q EXCEPT !.settled = Append(@, Settle(p, "error", q.error))]
    ELSE IF q.done
    THEN [q EXCEPT !.settled = Append(@, Settle(p, "done", Undefined))]
    ELSE [q EXCEPT !.resolvers = Append(@, p), !.rejecters = Append(@, p)]

\* ------------------------------------------------------------- variables
VARIABLES
    q,              \* SpecQueue: the queue under test
    hist,           \* SpecQueue: the producer calls made on q, in order
    nPulls,         \* SpecQueue: number of next() calls made on q
    pc,             \* Spec: position of the copilot_sdk_streaming call
    textQueue,      \* Spec: const textQueue
    reasoningQueue, \* Spec: const reasoningQueue
    cleanedUp,      \* Spec: let cleanedUp
    session,        \* Spec: the CopilotSession, as the calls made on it
    notices,        \* Spec: number of `Copilot error` notices raised
    caller,         \* Spec: what the caller and the session have done so far
    sendError,      \* Spec: the error session.send rejected with, or NoError
    input,          \* Spec: the function called and its conversation argument
    outcome,        \* Spec: how the call has settled (returned / rejected)
    backend,        \* Spec: the backend entry points called, in order
    plugin,         \* SpecProvider: the plugin (stored clients and settings)
    resolved        \* SpecProvider: the latest get_provider call and its result

queueVars == <<q, hist, nPulls>>
callVars == <<input, outcome, backend>>
streamVars == <<pc, textQueue, reasoningQueue, cleanedUp, session, notices,
                caller, sendError, input, outcome, backend>>
providerVars == <<plugin, resolved>>
vars == <<q, hist, nPulls, pc, textQueue, reasoningQueue, cleanedUp, session,
          notices, caller, sendError, input, outcome, backend, plugin, resolved>>

\* what sendAndWait has settled with (kind "none": not settled yet)
NoResponse == [kind |-> "none", value |-> Undefined]

\* a session nothing has been called on yet: whether the handler is
\* subscribed, the calls made on the session in order, the state of the
\* promise session.destroy() returned, the prompts passed to send /
\* sendAndWait, and what sendAndWait settled with
NewSession ==
    [subscribed |-> FALSE, calls |-> <<>>, destroy |-> "none",
     sent |-> <<>>, response |-> NoResponse]

\* nothing done yet by the caller or by the session: events delivered to
\* the handler (their number and the log of their kinds), session.error
\* events among them, pulls made on the two queues, abort() calls, for
\* each cleanup() call the state of the destroy promise when it was made,
\* the state of the promise each cleanup() call returned, the
\* session.error events that arrived while session.send was pending, the
\* errors passed to onError of ai_sdk_streaming and the notices it raised
NewCaller ==
    [events |-> 0, sessionErrors |-> 0, textPulls |-> 0, reasoningPulls |-> 0,
     abortCalls |-> 0, cleanupCalls |-> <<>>, log |-> <<>>,
     cleanupPromises |-> <<>>, errorsWhileSending |-> 0,
     providerErrors |-> <<>>, uiNotices |-> <<>>]

\* ------------------------------------------------------------ call input
\* a message content that is a string, and one that is not
Text(t) == [type |-> "string", val |-> t]
NotText == [type |-> "number", val |-> "42"]

Msg(r, c) == [role |-> r, content |-> c]

\* z.enum(["system", "user", "assistant"])
Roles == {"system", "user", "assistant"}

\* the five call shapes that validate a conversation
AiSdkFunctions == {"ai_sdk_streaming", "ai_sdk_completion", "ai_sdk_structured"}
CopilotFunctions == {"copilot_sdk_streaming", "copilot_sdk_completion"}

\* the conversations a call is made with
Conversations ==
    { <<>>,
      <<Msg("system", Text("s"))>>,
      <<Msg("user", Text("a"))>>,
      <<Msg("user", Text("a")), Msg("assistant", Text("x")), Msg("user", Text("b"))>>,
      <<Msg("user", Text("a")), Msg("user", Text("b")), Msg("assistant", Text("x"))>>,
      <<Msg("user", Text("a")), Msg("tool", Text("x"))>>,
      <<Msg("tool", Text("x"))>>,
      <<Msg("user", NotText)>>,
      <<Msg("assistant", NotText), Msg("user", Text("a"))>> }


\* MessageSchema accepts m
MessageValid(m) == m.role \in Roles /\ m.content.type = "string"

\* validation that checks the roles and not the contents
ConversationValidRolesOnly(conv) == \A i \in DOMAIN conv : conv[i].role \in Roles

\* ConversationSchema.parse(conversation) does not throw
ConversationValid(conv) == \A i \in DOMAIN conv : MessageValid(conv[i])

\* the value of lastUserMessage when no message has role user
NoMessage == Msg("none", [type |-> "undefined", val |-> Undefined])

\* the first message of role user (shift where the code pops)
FirstUserMessage(conv) ==
    LET us == SelectSeq(conv, LAMBDA m : m.role = "user")
    IN  IF us = <<>> THEN NoMessage ELSE us[1]

\* validatedConversation.filter(m => m.role === 'user').pop()
LastUserMessage(conv) ==
    LET us == SelectSeq(conv, LAMBDA m : m.role = "user")
    IN  IF us = <<>> THEN NoMessage ELSE us[Len(us)]

\* the test `!lastUserMessage` replaced by a test for an empty conversation
HasUserMessageNonEmpty(conv) == conv # <<>>

\* `!lastUserMessage` is false
HasUserMessage(conv) == LastUserMessage(conv) # NoMessage

\* the conversation copilot_sdk_streaming is followed through with: its
\* last user message is neither its first user message nor its last message
StreamedConversation ==
    <<Msg("user", Text("a")), Msg("user", Text("b")), Msg("assistant", Text("x"))>>

\* the provider_name argument of the ai_sdk functions: the name with a
\* branch of its own and one of the names that take the default branch
ProviderFamilies == {"openrouter", "openai"}

\* the calls made: every function with every conversation, except that a
\* copilot_sdk_streaming call that gets as far as creating a session is
\* made with StreamedConversation
Inputs ==
    { inp \in [fn : AiSdkFunctions \cup CopilotFunctions,
               conversation : Conversations,
               provider_name : ProviderFamilies \cup {"github-copilot"}] :
        /\ (inp.provider_name = "github-copilot") <=> (inp.fn \in CopilotFunctions)
        /\ (/\ inp.fn = "copilot_sdk_streaming"
            /\ ConversationValid(inp.conversation)
            /\ HasUserMessage(inp.conversation))
               => inp.conversation = StreamedConversation }

\* how a call has settled
NoOutcome == [kind |-> "pending", value |-> Undefined]
Returned(v) == [kind |-> "returned", value |-> v]
Rejected(e) == [kind |-> "rejected", value |-> e]

\* the state in which a call with input inp is entered; the two queues of
\* a streaming call have the same capacity
StreamStart(cap, inp) ==
    /\ pc = "start"
    /\ textQueue = NewQueue(cap)
    /\ reasoningQueue = NewQueue(cap)
    /\ cleanedUp = FALSE
    /\ session = NewSession
    /\ notices = 0
    /\ caller = NewCaller
    /\ sendError = NoError
    /\ input = inp
    /\ outcome = NoOutcome
    /\ backend = <<>>

\* the state of a call when it is entered; the queues have the smallest
\* or the largest capacity
StreamInit ==
    \E cap \in {1, MaxCapacity} : \E inp \in Inputs : StreamStart(cap, inp)

\* the call state SpecQueue keeps fixed
StreamIdle ==
    StreamStart(MaxCapacity,
                [fn |-> "copilot_sdk_streaming", conversation |-> <<>>,
                 provider_name |-> "github-copilot"])

\* ---------------------------------------------------------- get_provider
\* refactored_providers, and a name that is not in the list
EligibleProviders ==
    {"openai", "google", "anthropic", "groq", "ollama", "openrouter",
     "custom", "perplexity", "github-copilot"}
ProviderNames == EligibleProviders \cup {"mistral"}

\* settings.model, and the per-model endpoint / key pairs of the settings
Models == {"m1", "m2"}
EndpointOf(m) == [endpoint |-> "https://" \o m, api_key |-> "key-" \o m]

\* a client: the provider object built for a name from an endpoint and key
Client(n, url, key) == [name |-> n, baseURL |-> url, apiKey |-> key]

\* the client stored for a provider at plugin start
StoredClient(n) == Client(n, "default", "default")

\* plugin.custom_client before any custom provider was resolved, and one
\* left by an earlier resolution
NoClient == Client("none", Undefined, Undefined)
OldClient == Client("custom", "https://old", "key-old")

\* createOpenAICompatible({baseURL, apiKey, name})
createOpenAICompatible(baseURL, apiKey, name) == Client(name, baseURL, apiKey)

\* the plugins get_provider is called on: the current model, the endpoints
\* configured (for any subset of the models) and the custom client vary
Plugins ==
    { [openai_client |-> StoredClient("openai"),
       google_client |-> StoredClient("google"),
       anthropic_client |-> StoredClient("anthropic"),
       groq_client |-> StoredClient("groq"),
       ollama_client |-> StoredClient("ollama"),
       openrouter_client |-> StoredClient("openrouter"),
       perplexity_client |-> StoredClient("perplexity"),
       copilot_client |-> StoredClient("github-copilot"),
       custom_client |-> c,
       settings |-> [model |-> m,
                     custom_endpoints |-> [x \in D |-> EndpointOf(x)]]] :
      c \in {NoClient, OldClient}, m \in Models, D \in SUBSET Models }

\* the result of a call: what was returned or thrown, and the plugin after
Return(v, pl) == [kind |-> "returned", value |-> v, plugin |-> pl]
Throw(e, pl) == [kind |-> "thrown", value |-> e, plugin |-> pl]

NoEndpointError == "No custom endpoint configuration found for model"
InvalidProviderError == "Invalid provider"

\* a custom case that clears plugin.custom_client before it looks up the
\* endpoint
get_providerClearsFirst(pl, provider) ==
    CASE provider = "openai" -> Return(pl.openai_client, pl)
      [] provider = "google" -> Return(pl.google_client, pl)
      [] provider = "anthropic" -> Return(pl.anthropic_client, pl)
      [] provider = "groq" -> Return(pl.groq_client, pl)
      [] provider = "ollama" -> Return(pl.ollama_client, pl)
      [] provider = "openrouter" -> Return(pl.openrouter_client, pl)
      [] provider = "perplexity" -> Return(pl.perplexity_client, pl)
      [] provider = "github-copilot" -> Return(pl.copilot_client, pl)
      [] provider = "custom" ->
            LET current_model == pl.settings.model
                cleared == [pl EXCEPT !.custom_client = NoClient]
            IN  IF current_model \notin DOMAIN pl.settings.custom_endpoints
                THEN Throw(NoEndpointError, cleared)
                ELSE LET custom_endpoint ==
                             pl.settings.custom_endpoints[current_model]
                         sdk_provider ==
                             createOpenAICompatible(custom_endpoint.endpoint,
                                                    custom_endpoint.api_key,
                                                    provider)
                     IN  Return(sdk_provider,
                                [pl EXCEPT !.custom_client = sdk_provider])
      [] OTHER -> Throw(InvalidProviderError, pl)

\* get_provider(plugin, provider)
get_provider(pl, provider) ==
    CASE provider = "openai" -> Return(pl.openai_client, pl)
      [] provider = "google" -> Return(pl.google_client, pl)
      [] provider = "anthropic" -> Return(pl.anthropic_client, pl)
      [] provider = "groq" -> Return(pl.groq_client, pl)
      [] provider = "ollama" -> Return(pl.ollama_client, pl)
      [] provider = "openrouter" -> Return(pl.openrouter_client, pl)
      [] provider = "perplexity" -> Return(pl.perplexity_client, pl)
      [] provider = "github-copilot" -> Return(pl.copilot_client, pl)
      [] provider = "custom" ->
            LET current_model == pl.settings.model
            IN  IF current_model \notin DOMAIN pl.settings.custom_endpoints
                THEN Throw(NoEndpointError, pl)
                ELSE LET custom_endpoint ==
                             pl.settings.custom_endpoints[current_model]
                         sdk_provider ==
                             createOpenAICompatible(custom_endpoint.endpoint,
                                                    custom_endpoint.api_key,
                                                    provider)
                     IN  Return(sdk_provider,
                                [pl EXCEPT !.custom_client = sdk_provider])
      [] OTHER -> Throw(InvalidProviderError, pl)

\* no get_provider call made yet
NoResolution(pl) ==
    [n |-> 0, provider |-> "none", kind |-> "none", value |-> Undefined,
     before |-> pl]

\* the plugin state Spec, SpecQueue and SpecRouter keep fixed
ProviderIdle ==
    /\ plugin = CHOOSE pl \in Plugins :
                    /\ pl.custom_client = NoClient
                    /\ pl.settings.model = "m1"
                    /\ DOMAIN pl.settings.custom_endpoints = {}
    /\ resolved = NoResolution(plugin)

\* ------------------------------------------------------------- SpecQueue
\* one producer call as recorded in hist; pulls is the number of next()
\* calls made before it
Call(op, arg) == [op |-> op, arg |-> arg, pulls |-> nPulls]

QueueInit ==
    /\ \E cap \in 1..MaxCapacity : q = NewQueue(cap)
    /\ hist = <<>>
    /\ nPulls = 0

\* the producer calls push(v); v is the number of the call
QPush ==
    /\ Len(hist) < MaxCalls
    /\ q' = push(q, Len(hist) + 1)
    /\ hist' = Append(hist, Call("push", Len(hist) + 1))
    /\ UNCHANGED nPulls
    /\ UNCHANGED streamVars
    /\ UNCHANGED providerVars

\* the producer calls complete()
QComplete ==
    /\ Len(hist) < MaxCalls
    /\ q' = complete(q)
    /\ hist' = Append(hist, Call("complete", Undefined))
    /\ UNCHANGED nPulls
    /\ UNCHANGED streamVars
    /\ UNCHANGED providerVars

\* the producer calls fail(e)
QFail ==
    /\ Len(hist) < MaxCalls
    /\ \E e \in Errors :
        /\ q' = fail(q, e)
        /\ hist' = Append(hist, Call("fail", e))
    /\ UNCHANGED nPulls
    /\ UNCHANGED streamVars
    /\ UNCHANGED providerVars

\* the consumer calls next()
QPull ==
    /\ nPulls < MaxPulls
    /\ q' = next(q, nPulls + 1)
    /\ nPulls' = nPulls + 1
    /\ UNCHANGED hist
    /\ UNCHANGED streamVars
    /\ UNCHANGED providerVars

InitQueue == QueueInit /\ StreamIdle /\ ProviderIdle

NextQueue == QPush \/ QComplete \/ QFail \/ QPull

SpecQueue == InitQueue /\ [][NextQueue]_vars

\* ------------------------------------------------ copilot_sdk_streaming
\* errors session.send can reject with
DispatchErrors == {"send failed"}

\* the data.message of a session.error event (Undefined: none given)
Messages == {"rate limited", Undefined}

\* `event.data?.message || 'Unknown error'`
ErrorMessage(m) == IF m = Undefined THEN "Unknown error" ELSE m

\* new Error(`Copilot streaming error: ${errorMessage}`)
StreamingError(m) ==
    IF ErrorMessage(m) = "rate limited"
    THEN "Copilot streaming error: rate limited"
    ELSE "Copilot streaming error: Unknown error"

\* number of calls of method m made on the session
CallCount(m) == Cardinality({i \in DOMAIN session.calls : session.calls[i] = m})

\* the errors the functions themselves throw or pass on
ValidationError == "ZodError"
NoUserMessageError == "No user message found in conversation"
CreateSessionError == "createSession failed"
BackendError == "backend failed"

\* the value copilot_sdk_streaming returns
StreamResult == "CopilotStreamResult"

\* one event delivered to the handler: its type and its data.message
LogEntry(k, m) == [kind |-> k, message |-> m]

\* the call is copilot_sdk_streaming and has returned its result object
HasResult == pc = "returned" /\ input.fn = "copilot_sdk_streaming"

\* performCleanup without the one-shot flag test
PerformCleanupNoGuard ==
    /\ cleanedUp' = TRUE
    /\ session' = [session EXCEPT !.subscribed = FALSE,
                                  !.calls = @ \o <<"unsubscribe", "destroy">>,
                                  !.destroy = "pending"]

\* performCleanup without its unsubscribe() call
PerformCleanupKeepSubscription ==
    IF cleanedUp
    THEN UNCHANGED <<cleanedUp, session>>
    ELSE /\ cleanedUp' = TRUE
         /\ session' = [session EXCEPT !.calls = Append(@, "destroy"),
                                       !.destroy = "pending"]

\* performCleanup that tries again when the earlier destroy has failed
PerformCleanupRetry ==
    IF cleanedUp /\ session.destroy # "rejected"
    THEN UNCHANGED <<cleanedUp, session>>
    ELSE /\ cleanedUp' = TRUE
         /\ session' = [session EXCEPT !.subscribed = FALSE,
                                       !.calls = @ \o <<"unsubscribe", "destroy">>,
                                       !.destroy = "pending"]

\* performCleanup, up to its await of session.destroy()
PerformCleanup ==
    IF cleanedUp
    THEN UNCHANGED <<cleanedUp, session>>
    ELSE /\ cleanedUp' = TRUE
         /\ session' = [session EXCEPT !.subscribed = FALSE,
                                       !.calls = @ \o <<"unsubscribe", "destroy">>,
                                       !.destroy = "pending"]

\* performCleanup that lets a rejection of session.destroy() through
CleanupSettledRethrow(r) == r

\* how the promise of performCleanup settles once the promise of
\* session.destroy() has settled with r: the catch swallows a rejection
CleanupSettled(r) == "resolved"

\* abort that completes the text queue only
AbortTextOnly ==
    /\ session' = [session EXCEPT !.calls = Append(@, "abort")]
    /\ textQueue' = complete(textQueue)
    /\ UNCHANGED reasoningQueue

\* abort that also unsubscribes the handler and destroys the session
AbortWithTeardown ==
    /\ session' = [session EXCEPT !.subscribed = FALSE,
                                  !.calls = @ \o <<"abort", "unsubscribe", "destroy">>,
                                  !.destroy = "pending"]
    /\ textQueue' = complete(textQueue)
    /\ reasoningQueue' = complete(reasoningQueue)

\* the abort closure of the result object
Abort ==
    /\ session' = [session EXCEPT !.calls = Append(@, "abort")]
    /\ textQueue' = complete(textQueue)
    /\ reasoningQueue' = complete(reasoningQueue)

\* ConversationSchema.parse throws: the call rejects (all five call shapes)
RejectInvalid ==
    /\ pc = "start"
    /\ ~ConversationValid(input.conversation)
    /\ pc' = "rejected"
    /\ outcome' = Rejected(ValidationError)
    /\ UNCHANGED <<textQueue, reasoningQueue, cleanedUp, session, notices,
                   caller, sendError, input, backend>>
    /\ UNCHANGED queueVars
    /\ UNCHANGED providerVars

\* `if (!lastUserMessage) throw` of the two copilot functions
RejectNoUserMessage ==
    /\ pc = "start"
    /\ input.fn \in CopilotFunctions
    /\ ConversationValid(input.conversation)
    /\ ~HasUserMessage(input.conversation)
    /\ pc' = "rejected"
    /\ outcome' = Rejected(NoUserMessageError)
    /\ UNCHANGED <<textQueue, reasoningQueue, cleanedUp, session, notices,
                   caller, sendError, input, backend>>
    /\ UNCHANGED queueVars
    /\ UNCHANGED providerVars

\* client.createSession rejects: the call rejects, no session exists
CreateSessionRejects ==
    /\ pc = "start"
    /\ input.fn \in CopilotFunctions
    /\ ConversationValid(input.conversation)
    /\ HasUserMessage(input.conversation)
    /\ backend' = Append(backend, "createSession")
    /\ pc' = "rejected"
    /\ outcome' = Rejected(CreateSessionError)
    /\ UNCHANGED <<textQueue, reasoningQueue, cleanedUp, session, notices,
                   caller, sendError, input>>
    /\ UNCHANGED queueVars
    /\ UNCHANGED providerVars

\* createSession resolves, the queues are created, the handler is
\* subscribed and session.send is called
CreateSession ==
    /\ pc = "start"
    /\ input.fn = "copilot_sdk_streaming"
    /\ ConversationValid(input.conversation)
    /\ HasUserMessage(input.conversation)
    /\ backend' = Append(backend, "createSession")
    /\ pc' = "sending"
    /\ session' = [session EXCEPT
                     !.subscribed = TRUE,
                     !.calls = @ \o <<"on", "send">>,
                     !.sent = Append(@, LastUserMessage(input.conversation).content)]
    /\ UNCHANGED <<textQueue, reasoningQueue, cleanedUp, notices, caller,
                   sendError, input, outcome>>
    /\ UNCHANGED queueVars
    /\ UNCHANGED providerVars

\* session.send resolves and the result object is returned
SendResolves ==
    /\ pc = "sending"
    /\ pc' = "returned"
    /\ outcome' = Returned(StreamResult)
    /\ UNCHANGED <<textQueue, reasoningQueue, cleanedUp, session, notices,
                   caller, sendError, input, backend>>
    /\ UNCHANGED queueVars
    /\ UNCHANGED providerVars

\* session.send rejects: the catch block fails both queues and awaits
\* performCleanup before it throws
SendRejects ==
    /\ pc = "sending"
    /\ \E e \in DispatchErrors :
        /\ sendError' = e
        /\ textQueue' = fail(textQueue, e)
        /\ reasoningQueue' = fail(reasoningQueue, e)
        /\ outcome' = IF cleanedUp THEN Rejected(e) ELSE outcome
    /\ PerformCleanup
    /\ pc' = IF cleanedUp THEN "rejected" ELSE "teardown"
    /\ UNCHANGED <<notices, caller, input, backend>>
    /\ UNCHANGED queueVars
    /\ UNCHANGED providerVars

\* --------------------------------------------- copilot_sdk_completion
\* what session.sendAndWait can settle with: a response with content, a
\* response without (`response?.data?.content` undefined), a rejection
SendAndWaitError == "sendAndWait failed"
Responses ==
    { [kind |-> "resolved", value |-> "hello"],
      [kind |-> "resolved", value |-> Undefined],
      [kind |-> "rejected", value |-> SendAndWaitError] }

\* `response?.data?.content || ""`
ContentOf(v) == IF v = Undefined THEN "" ELSE v

\* what copilot_sdk_completion settles with once the finally block is done
CompletionOutcome(resp) ==
    IF resp.kind = "resolved" THEN Returned(ContentOf(resp.value))
    ELSE Rejected(resp.value)

\* the error a rejected performCleanup promise would carry
DestroyError == "destroy failed"

\* createSession resolves and session.sendAndWait is called
CreateSessionCompletion ==
    /\ pc = "start"
    /\ input.fn = "copilot_sdk_completion"
    /\ ConversationValid(input.conversation)
    /\ HasUserMessage(input.conversation)
    /\ backend' = Append(backend, "createSession")
    /\ pc' = "waiting"
    /\ session' = [session EXCEPT
                     !.calls = Append(@, "sendAndWait"),
                     !.sent = Append(@, LastUserMessage(input.conversation).content)]
    /\ UNCHANGED <<textQueue, reasoningQueue, cleanedUp, notices, caller,
                   sendError, input, outcome>>
    /\ UNCHANGED queueVars
    /\ UNCHANGED providerVars

\* a try without finally: session.destroy() is called on success only
SendAndWaitSettlesNoFinally ==
    /\ pc = "waiting"
    /\ \E resp \in Responses :
        /\ session' = IF resp.kind = "resolved"
                      THEN [session EXCEPT !.response = resp,
                                           !.calls = Append(@, "destroy"),
                                           !.destroy = "pending"]
                      ELSE [session EXCEPT !.response = resp]
        /\ pc' = IF resp.kind = "resolved" THEN "finishing" ELSE "rejected"
        /\ outcome' = IF resp.kind = "resolved" THEN outcome
                      ELSE Rejected(resp.value)
    /\ UNCHANGED <<textQueue, reasoningQueue, cleanedUp, notices, caller,
                   sendError, input, backend>>
    /\ UNCHANGED queueVars
    /\ UNCHANGED providerVars

\* session.sendAndWait settles; the finally block calls session.destroy()
SendAndWaitSettles ==
    /\ pc = "waiting"
    /\ \E resp \in Responses :
        session' = [session EXCEPT !.response = resp,
                                   !.calls = Append(@, "destroy"),
                                   !.destroy = "pending"]
    /\ pc' = "finishing"
    /\ UNCHANGED <<textQueue, reasoningQueue, cleanedUp, notices, caller,
                   sendError, input, outcome, backend>>
    /\ UNCHANGED queueVars
    /\ UNCHANGED providerVars

\* the promise of session.destroy() settles; whoever awaits it goes on:
\* the catch block of copilot_sdk_streaming throws the dispatch error, a
\* cleanup() promise settles, copilot_sdk_completion leaves its finally
DestroySettles ==
    /\ session.destroy = "pending"
    /\ \E r \in {"resolved", "rejected"} :
        /\ session' = [session EXCEPT !.destroy = r]
        /\ caller' = [caller EXCEPT !.cleanupPromises =
                        [i \in DOMAIN caller.cleanupPromises |->
                            IF caller.cleanupPromises[i] = "pending"
                            THEN CleanupSettled(r)
                            ELSE caller.cleanupPromises[i]]]
        /\ outcome' = CASE pc = "teardown" ->
                             IF CleanupSettled(r) = "resolved"
                             THEN Rejected(sendError)
                             ELSE Rejected(DestroyError)
                        [] pc = "finishing" -> CompletionOutcome(session.response)
                        [] OTHER -> outcome
    /\ pc' = CASE pc = "teardown" -> "rejected"
               [] pc = "finishing" ->
                    IF session.response.kind = "resolved" THEN "returned"
                    ELSE "rejected"
               [] OTHER -> pc
    /\ UNCHANGED <<textQueue, reasoningQueue, cleanedUp, notices, sendError,
                   input, backend>>
    /\ UNCHANGED queueVars
    /\ UNCHANGED providerVars

\* ------------------------------------------------- the session's events
\* the session can deliver one more event to the subscribed handler
Deliverable == session.subscribed /\ caller.events < MaxEvents

\* a message_delta case that pushes on both queues
EvMessageDeltaBoth ==
    /\ Deliverable
    /\ textQueue' = push(textQueue, caller.events + 1)
    /\ reasoningQueue' = push(reasoningQueue, caller.events + 1)
    /\ caller' = [caller EXCEPT !.events = @ + 1,
                                !.log = Append(@, LogEntry("message_delta", Undefined))]
    /\ UNCHANGED <<pc, cleanedUp, session, notices, sendError>>
    /\ UNCHANGED callVars
    /\ UNCHANGED queueVars
    /\ UNCHANGED providerVars

\* handler, case "assistant.message_delta"
EvMessageDelta ==
    /\ Deliverable
    /\ textQueue' = push(textQueue, caller.events + 1)
    /\ caller' = [caller EXCEPT !.events = @ + 1,
                                !.log = Append(@, LogEntry("message_delta", Undefined))]
    /\ UNCHANGED <<pc, reasoningQueue, cleanedUp, session, notices, sendError>>
    /\ UNCHANGED callVars
    /\ UNCHANGED queueVars
    /\ UNCHANGED providerVars

\* handler, case "assistant.reasoning_delta"
EvReasoningDelta ==
    /\ Deliverable
    /\ reasoningQueue' = push(reasoningQueue, caller.events + 1)
    /\ caller' = [caller EXCEPT !.events = @ + 1,
                                !.log = Append(@, LogEntry("reasoning_delta", Undefined))]
    /\ UNCHANGED <<pc, textQueue, cleanedUp, session, notices, sendError>>
    /\ UNCHANGED callVars
    /\ UNCHANGED queueVars
    /\ UNCHANGED providerVars

\* the events the handler ignores: null, an event without a string type,
\* an event of a type the switch has no case for, and a message or
\* reasoning delta whose data.deltaContent is not a string
IgnoredEvents ==
    {"null", "untyped", "unrecognized",
     "message_delta.malformed", "reasoning_delta.malformed"}

\* a handler that takes the deltaContent of a malformed delta as it is
EvIgnoredPushed ==
    /\ Deliverable
    /\ \E k \in IgnoredEvents :
        /\ caller' = [caller EXCEPT !.events = @ + 1,
                                    !.log = Append(@, LogEntry(k, Undefined))]
        /\ textQueue' = IF k = "message_delta.malformed"
                        THEN push(textQueue, caller.events + 1)
                        ELSE textQueue
    /\ UNCHANGED <<pc, reasoningQueue, cleanedUp, session, notices, sendError>>
    /\ UNCHANGED callVars
    /\ UNCHANGED queueVars
    /\ UNCHANGED providerVars

\* handler, the shape test and the cases that do nothing: the event is
\* dropped (with a console.warn for the first two kinds)
EvIgnored ==
    /\ Deliverable
    /\ \E k \in IgnoredEvents :
        caller' = [caller EXCEPT !.events = @ + 1,
                                !.log = Append(@, LogEntry(k, Undefined))]
    /\ UNCHANGED <<pc, textQueue, reasoningQueue, cleanedUp, session, notices,
                   sendError>>
    /\ UNCHANGED callVars
    /\ UNCHANGED queueVars
    /\ UNCHANGED providerVars

\* a session.error case that makes the pending call reject
EvSessionErrorThrows ==
    /\ Deliverable
    /\ \E m \in Messages :
        /\ textQueue' = fail(textQueue, StreamingError(m))
        /\ reasoningQueue' = fail(reasoningQueue, StreamingError(m))
        /\ caller' = [caller EXCEPT
                        !.events = @ + 1, !.sessionErrors = @ + 1,
                        !.log = Append(@, LogEntry("session.error", m)),
                        !.errorsWhileSending =
                            IF pc = "sending" THEN @ + 1 ELSE @]
        /\ outcome' = IF pc = "sending" THEN Rejected(StreamingError(m))
                      ELSE outcome
    /\ notices' = notices + 1
    /\ PerformCleanup
    /\ pc' = IF pc = "sending" THEN "rejected" ELSE pc
    /\ UNCHANGED <<sendError, input, backend>>
    /\ UNCHANGED queueVars
    /\ UNCHANGED providerVars

\* handler, case "session.error"
EvSessionError ==
    /\ Deliverable
    /\ \E m \in Messages :
        /\ textQueue' = fail(textQueue, StreamingError(m))
        /\ reasoningQueue' = fail(reasoningQueue, StreamingError(m))
        /\ caller' = [caller EXCEPT
                        !.events = @ + 1, !.sessionErrors = @ + 1,
                        !.log = Append(@, LogEntry("session.error", m)),
                        !.errorsWhileSending =
                            IF pc = "sending" THEN @ + 1 ELSE @]
    /\ notices' = notices + 1
    /\ PerformCleanup
    /\ UNCHANGED <<pc, sendError>>
    /\ UNCHANGED callVars
    /\ UNCHANGED queueVars
    /\ UNCHANGED providerVars

\* a session.idle case that completes the text queue only
EvSessionIdleTextOnly ==
    /\ Deliverable
    /\ textQueue' = complete(textQueue)
    /\ caller' = [caller EXCEPT !.events = @ + 1,
                                !.log = Append(@, LogEntry("session.idle", Undefined))]
    /\ UNCHANGED <<pc, reasoningQueue, cleanedUp, session, notices, sendError>>
    /\ UNCHANGED callVars
    /\ UNCHANGED queueVars
    /\ UNCHANGED providerVars

\* handler, case "session.idle"
EvSessionIdle ==
    /\ Deliverable
    /\ textQueue' = complete(textQueue)
    /\ reasoningQueue' = complete(reasoningQueue)
    /\ caller' = [caller EXCEPT !.events = @ + 1,
                                !.log = Append(@, LogEntry("session.idle", Undefined))]
    /\ UNCHANGED <<pc, cleanedUp, session, notices, sendError>>
    /\ UNCHANGED callVars
    /\ UNCHANGED queueVars
    /\ UNCHANGED providerVars

\* ------------------------------------------ the caller of the result
\* the caller calls result.abort()
CallerAbort ==
    /\ HasResult
    /\ caller.abortCalls < MaxAbortCalls
    /\ Abort
    /\ caller' = [caller EXCEPT !.abortCalls = @ + 1]
    /\ UNCHANGED <<pc, cleanedUp, notices, sendError>>
    /\ UNCHANGED callVars
    /\ UNCHANGED queueVars
    /\ UNCHANGED providerVars

\* the caller calls result.cleanup(): the promise it gets is resolved at
\* once when the cleanup was started before, else awaits session.destroy()
CallerCleanup ==
    /\ HasResult
    /\ Len(caller.cleanupCalls) < MaxCleanupCalls
    /\ PerformCleanup
    /\ caller' = [caller EXCEPT
                    !.cleanupCalls = Append(@, session.destroy),
                    !.cleanupPromises =
                        Append(@, IF cleanedUp THEN "resolved" ELSE "pending")]
    /\ UNCHANGED <<pc, textQueue, reasoningQueue, notices, sendError>>
    /\ UNCHANGED callVars
    /\ UNCHANGED queueVars
    /\ UNCHANGED providerVars

\* the caller pulls from result.textStream
PullText ==
    /\ HasResult
    /\ caller.textPulls < MaxStreamPulls
    /\ textQueue' = next(textQueue, caller.textPulls + 1)
    /\ caller' = [caller EXCEPT !.textPulls = @ + 1]
    /\ UNCHANGED <<pc, reasoningQueue, cleanedUp, session, notices, sendError>>
    /\ UNCHANGED callVars
    /\ UNCHANGED queueVars
    /\ UNCHANGED providerVars

\* the caller pulls from result.reasoningStream
PullReasoning ==
    /\ HasResult
    /\ caller.reasoningPulls < MaxReasoningPulls
    /\ reasoningQueue' = next(reasoningQueue, caller.reasoningPulls + 1)
    /\ caller' = [caller EXCEPT !.reasoningPulls = @ + 1]
    /\ UNCHANGED <<pc, textQueue, cleanedUp, session, notices, sendError>>
    /\ UNCHANGED callVars
    /\ UNCHANGED queueVars
    /\ UNCHANGED providerVars

\* ------------------- ai_sdk_streaming, ai_sdk_completion, ai_sdk_structured
\* the backend entry point each function awaits
BackendOf(fn) ==
    CASE fn = "ai_sdk_streaming" -> "streamText"
      [] fn = "ai_sdk_completion" -> "generateText"
      [] fn = "ai_sdk_structured" -> "generateObject"

\* what the backend entry points resolve with: the stream result of
\* streamText, the result object of generateText and of generateObject;
\* the text and the object they carry
StreamTextResult == "StreamTextResult"
GenerateTextResult == "GenerateTextResult"
GenerateObjectResult == "GenerateObjectResult"
TextOf(response) == "response.text"
ObjectOf(response) == "response.object"

\* the value each function returns, in its openrouter branch and in its
\* default branch
AiSdkReturn(fn, provider_name) ==
    CASE fn = "ai_sdk_streaming" -> StreamTextResult
      [] fn = "ai_sdk_completion" -> TextOf(GenerateTextResult)
      [] fn = "ai_sdk_structured" ->
            IF provider_name = "openrouter" THEN GenerateObjectResult
            ELSE ObjectOf(GenerateObjectResult)

\* the conversation has passed validation and the backend is called
AiSdkCall ==
    /\ pc = "start"
    /\ input.fn \in AiSdkFunctions
    /\ ConversationValid(input.conversation)
    /\ backend' = Append(backend, BackendOf(input.fn))
    /\ pc' = "backend"
    /\ UNCHANGED <<textQueue, reasoningQueue, cleanedUp, session, notices,
                   caller, sendError, input, outcome>>
    /\ UNCHANGED queueVars
    /\ UNCHANGED providerVars

\* the backend call settles and so does the function
AiSdkSettles ==
    /\ pc = "backend"
    /\ \E ok \in BOOLEAN :
        /\ pc' = IF ok THEN "returned" ELSE "rejected"
        /\ outcome' = IF ok THEN Returned(AiSdkReturn(input.fn, input.provider_name))
                      ELSE Rejected(BackendError)
    /\ UNCHANGED <<textQueue, reasoningQueue, cleanedUp, session, notices,
                   caller, sendError, input, backend>>
    /\ UNCHANGED queueVars
    /\ UNCHANGED providerVars

\* the status code of a rate-limit response, and another one
RateLimitStatus == 429
OtherStatus == 500

\* the errors passed to onError: an error without an `errors` list, and
\* errors whose list holds the status codes of the failed attempts
NoErrorsList == [hasErrors |-> FALSE, errors |-> <<>>]
ErrorsList(codes) == [hasErrors |-> TRUE, errors |-> codes]
ProviderErrors ==
    { NoErrorsList,
      ErrorsList(<<>>),
      ErrorsList(<<RateLimitStatus>>),
      ErrorsList(<<OtherStatus>>),
      ErrorsList(<<OtherStatus, RateLimitStatus>>),
      ErrorsList(<<RateLimitStatus, OtherStatus>>) }

\* the two notices of handleError
RateLimitNotice == "Rate limit exceeded"
UnknownErrorNotice == "Unknown error during streaming"

\* a test of the first entry of the list only
handleErrorFirstOnly(error) ==
    IF error.hasErrors /\ error.errors # <<>>
       /\ error.errors[1] = RateLimitStatus
    THEN RateLimitNotice
    ELSE UnknownErrorNotice

\* the notice handleError raises: `errors?.some(e => e.statusCode === 429)`
handleError(error) ==
    IF error.hasErrors
       /\ \E i \in DOMAIN error.errors : error.errors[i] = RateLimitStatus
    THEN RateLimitNotice
    ELSE UnknownErrorNotice

\* streamText reports an error to onError while the returned stream is
\* consumed
OnError ==
    /\ input.fn = "ai_sdk_streaming"
    /\ pc = "returned"
    /\ Len(caller.providerErrors) < MaxProviderErrors
    /\ \E error \in ProviderErrors :
        caller' = [caller EXCEPT
                     !.providerErrors = Append(@, error),
                     !.uiNotices = Append(@, handleError(error))]
    /\ UNCHANGED <<pc, textQueue, reasoningQueue, cleanedUp, session, notices,
                   sendError>>
    /\ UNCHANGED callVars
    /\ UNCHANGED queueVars
    /\ UNCHANGED providerVars

Init ==
    /\ StreamInit
    /\ q = NewQueue(MaxCapacity) /\ hist = <<>> /\ nPulls = 0
    /\ ProviderIdle

Next ==
    \/ RejectInvalid
    \/ RejectNoUserMessage
    \/ CreateSessionRejects
    \/ CreateSession
    \/ SendResolves
    \/ SendRejects
    \/ CreateSessionCompletion
    \/ SendAndWaitSettles
    \/ DestroySettles
    \/ EvMessageDelta
    \/ EvReasoningDelta
    \/ EvSessionError
    \/ EvSessionIdle
    \/ CallerAbort
    \/ CallerCleanup
    \/ PullText
    \/ PullReasoning
    \/ AiSdkCall
    \/ AiSdkSettles
    \/ OnError

Spec == Init /\ [][Next]_vars

\* ------------------------------------------------------------ SpecRouter
\* the session.on handler of one copilot_sdk_streaming call under every
\* kind of event, the ignored ones included, with the two consumers
\* pulling; Spec delivers the well-formed events only and adds the
\* caller's abort() and cleanup() and the dispatch failure
InitRouter ==
    /\ \E cap \in {1, MaxCapacity} :
           StreamStart(cap, [fn |-> "copilot_sdk_streaming",
                             conversation |-> StreamedConversation,
                             provider_name |-> "github-copilot"])
    /\ q = NewQueue(MaxCapacity) /\ hist = <<>> /\ nPulls = 0
    /\ ProviderIdle

NextRouter ==
    \/ CreateSession
    \/ SendResolves
    \/ DestroySettles
    \/ EvMessageDelta
    \/ EvReasoningDelta
    \/ EvSessionError
    \/ EvSessionIdle
    \/ EvIgnored
    \/ PullText
    \/ PullReasoning

SpecRouter == InitRouter /\ [][NextRouter]_vars

\* ---------------------------------------------------------- SpecProvider
\* get_provider is called with some name on the plugin
GetProvider ==
    /\ resolved.n < MaxProviderCalls
    /\ \E provider \in ProviderNames :
        LET r == get_provider(plugin, provider)
        IN  /\ plugin' = r.plugin
            /\ resolved' = [n |-> resolved.n + 1, provider |-> provider,
                            kind |-> r.kind, value |-> r.value,
                            before |-> plugin]
    /\ UNCHANGED queueVars
    /\ UNCHANGED streamVars

\* the user selects another model in the settings
SelectModel ==
    /\ resolved.n < MaxProviderCalls
    /\ \E m \in Models \ {plugin.settings.model} :
        plugin' = [plugin EXCEPT !.settings.model = m]
    /\ UNCHANGED resolved
    /\ UNCHANGED queueVars
    /\ UNCHANGED streamVars

InitProvider ==
    /\ plugin \in Plugins
    /\ resolved = NoResolution(plugin)
    /\ q = NewQueue(MaxCapacity) /\ hist = <<>> /\ nPulls = 0
    /\ StreamIdle

NextProvider == GetProvider \/ SelectModel

SpecProvider == InitProvider /\ [][NextProvider]_vars

\* ------------------------------------------- observations on SpecQueue
Range(s) == {s[i] : i \in DOMAIN s}

MinOf(S) == CHOOSE x \in S : \A y \in S : x <= y

Smaller(a, b) == IF a <= b THEN a ELSE b

\* positions in hist of the complete() and fail() calls
TerminalCalls == {i \in DOMAIN hist : hist[i].op \in {"complete", "fail"}}

\* the values of the push calls in a piece of the history, in call order
PushedValues(h) ==
    LET ps == SelectSeq(h, LAMBDA c : c.op = "push")
    IN  [i \in DOMAIN ps |-> ps[i].arg]

\* the values pushed before the first complete() or fail()
Accepted ==
    IF TerminalCalls = {} THEN PushedValues(hist)
    ELSE PushedValues(SubSeq(hist, 1, MinOf(TerminalCalls) - 1))

\* the values a consumer has received from queue x, in the order received
Values(x) ==
    LET vs == SelectSeq(x.settled, LAMBDA r : r.kind = "value")
    IN  [i \in DOMAIN vs |-> vs[i].value]

\* s without the elements that occur in t
Without(s, t) == SelectSeq(s, LAMBDA v : v \notin Range(t))

\* the last call recorded in a non-empty history
LastCall(h) == h[Len(h)]

\* this step is a push(v) call of the producer
PushStep == Len(hist') = Len(hist) + 1 /\ LastCall(hist').op = "push"

\* this step is a complete() or fail(e) call of the producer
TerminalStep ==
    Len(hist') = Len(hist) + 1 /\ LastCall(hist').op \in {"complete", "fail"}

\* the producer called complete() at least once and never fail()
CompletedOnly ==
    /\ \E i \in DOMAIN hist : hist[i].op = "complete"
    /\ \A i \in DOMAIN hist : hist[i].op # "fail"

\* the consumer of x has received an end-of-sequence result
Ended(x) == \E i \in DOMAIN x.settled : x.settled[i].kind = "done"

\* the consumer of x, pulling in order, has received exactly `expected`
\* and from then on end-of-sequence results only
ObservesThenEnd(x, expected) ==
    LET st == x.settled
        k  == MinOf({i \in DOMAIN st : st[i].kind = "done"})
    IN  /\ \A i \in DOMAIN st : st[i].pull = i
        /\ \A i \in 1..(k - 1) : st[i].kind = "value"
        /\ [i \in 1..(k - 1) |-> st[i].value] = expected
        /\ \A i \in k..Len(st) : st[i].kind = "done"

\* C1 (as stated): after pushes followed by complete(), with pulls
\* interleaved in any way, a consumer that has pulled to end-of-sequence
\* has observed exactly the pushed values, each once, in push order, and
\* then end-of-sequence.
C1_AllPushedObserved ==
    (CompletedOnly /\ Ended(q)) => ObservesThenEnd(q, Accepted)

\* C1 (amended): the consumer has observed, in push order and each once,
\* exactly the pushed values that the overflow policy did not evict, and
\* then end-of-sequence; when no push found the buffer full these are all
\* the pushed values.
C1_PushedMinusEvictedObserved ==
    (CompletedOnly /\ Ended(q)) =>
        /\ ObservesThenEnd(q, Without(Accepted, q.warned))
        /\ (q.warned = <<>> => Values(q) = Accepted)

\* C1 witness: at least two values pushed, a pull issued before
\* complete() was called, end-of-sequence observed, nothing evicted and
\* every pushed value received.
C1_Witness ==
    /\ CompletedOnly /\ Ended(q)
    /\ Len(Accepted) >= 2
    /\ hist[1].op = "push"
    /\ LastCall(hist).op = "complete" /\ LastCall(hist).pulls >= 1
    /\ q.warned = <<>>
    /\ Values(q) = Accepted

\* hist starts with n pushes and a fail(e) made before any pull, and no
\* other fail follows
FailAfterPushes(n) ==
    /\ Len(hist) >= n + 1
    /\ \A i \in 1..n : hist[i].op = "push"
    /\ hist[n + 1].op = "fail"
    /\ hist[n + 1].pulls = 0
    /\ \A i \in (n + 2)..Len(hist) : hist[i].op # "fail"

\* C2 (as stated): when fail(E) is called after N pushes and before any
\* pull, the consumer observes the N values in push order and then a
\* failure with E on pull N+1.
C2_AllThenError ==
    \A n \in 0..MaxCalls :
        FailAfterPushes(n) =>
            \A i \in DOMAIN q.settled :
                /\ i <= n => q.settled[i] = Settle(i, "value", hist[i].arg)
                /\ i = n + 1 => q.settled[i] = Settle(i, "error", hist[n + 1].arg)

\* C2 (amended): with M = min(N, maxSize), the consumer observes the last
\* M pushed values in push order and then a failure with E on pull M+1
\* (all N values when N <= maxSize).
C2_RetainedThenError ==
    \A n \in 0..MaxCalls :
        FailAfterPushes(n) =>
            LET m == Smaller(n, q.maxSize)
            IN  \A i \in DOMAIN q.settled :
                    /\ i <= m =>
                         q.settled[i] = Settle(i, "value", hist[n - m + i].arg)
                    /\ i > m => q.settled[i] = Settle(i, "error", hist[n + 1].arg)

\* C2 witness: two pushes, fail(E), then three pulls on a queue of
\* capacity two: both values and then the error have been observed.
C2_Witness ==
    /\ FailAfterPushes(2)
    /\ q.maxSize = 2
    /\ Len(q.settled) = 3
    /\ q.settled[3].kind = "error"

\* the accepted values no consumer has received, in push order
Unconsumed == Without(Accepted, Values(q))

\* the buffer is within capacity and holds the newest unconsumed values:
\* the unconsumed values are the evicted ones followed by the buffer
BufferInv ==
    /\ Len(q.queue) <= q.maxSize
    /\ Unconsumed = q.warned \o q.queue

\* this step is an accepted push that finds the buffer full
PushOnFull ==
    /\ PushStep
    /\ ~q.done
    /\ q.resolvers = <<>>
    /\ Len(q.queue) = q.maxSize

\* C3: the buffer never holds more than maxSize values; a push on a full
\* buffer removes exactly the oldest buffered value and appends the new
\* one; the buffer is always the newest unconsumed values in push order.
C3_BoundedDropOldest ==
    [][/\ BufferInv'
       /\ PushOnFull =>
            /\ q'.queue = Append(Tail(q.queue), LastCall(hist').arg)
            /\ q'.warned = Append(q.warned, Head(q.queue))]_vars

\* C3 witness: a queue of capacity two that has evicted a value and is
\* full again.
C3_Witness ==
    /\ q.maxSize = 2
    /\ Len(q.warned) >= 1
    /\ Len(q.queue) = 2

\* what a consumer of x can observe now or by pulling later
Observable(x) == <<x.queue, x.done, x.error, x.resolvers, x.settled>>

\* C4 (as stated): once the queue is terminal, a further complete() or
\* fail(E') changes nothing a consumer can observe.
C4_TerminalCallsIdempotent ==
    [][(q.done /\ TerminalStep) => Observable(q') = Observable(q)]_vars

\* every pull is settled at most once, pulls are settled in the order they
\* were issued, values are delivered once and in push order, and no
\* settled pull is still pending
SettledOnce(x) ==
    /\ \A i, j \in DOMAIN x.settled :
           i < j => x.settled[i].pull < x.settled[j].pull
    /\ \A i, j \in DOMAIN Values(x) : i < j => Values(x)[i] < Values(x)[j]
    /\ \A i \in DOMAIN x.settled : x.settled[i].pull \notin Range(x.resolvers)

\* C5: a push made while consumers are suspended settles the oldest
\* suspended pull with its value and nothing else; every pull is settled
\* at most once and no value reaches two pulls.
C5_FifoHandoff ==
    [][/\ (PushStep /\ ~q.done /\ q.resolvers # <<>>) =>
            /\ q'.settled = Append(q.settled, Settle(Head(q.resolvers), "value",
                                                     LastCall(hist').arg))
            /\ q'.resolvers = Tail(q.resolvers)
            /\ q'.rejecters = Tail(q.rejecters)
            /\ q'.queue = q.queue
       /\ SettledOnce(q')]_vars

\* C5 witness: two pulls were suspended before the first push, and two
\* pushes have settled pull 1 and pull 2 with the first and second value.
C5_Witness ==
    /\ Len(hist) >= 2
    /\ hist[1].op = "push" /\ hist[1].pulls >= 2
    /\ hist[2].op = "push"
    /\ Len(q.settled) >= 2
    /\ q.settled[1] = Settle(1, "value", hist[1].arg)
    /\ q.settled[2] = Settle(2, "value", hist[2].arg)

\* C6: once complete() or fail() has returned no pull is pending, and
\* every pull issued so far, also one issued after the terminal call, has
\* been settled.
C6_NoPendingOnceTerminal ==
    q.done =>
        /\ q.resolvers = <<>>
        /\ q.rejecters = <<>>
        /\ Len(q.settled) = nPulls

\* C6 witness: the terminal call found two pulls suspended and a third
\* pull was issued after it; all three are settled.
C6_Witness ==
    /\ q.done
    /\ hist # <<>>
    /\ hist[1].op \in {"complete", "fail"}
    /\ hist[1].pulls = 2
    /\ nPulls = 3
    /\ Len(q.settled) = 3

\* the values queue x holds or has delivered
Delivered(x) == Range(x.queue) \cup Range(Values(x))

\* C7: a terminal queue stays terminal, a push on it changes no field of
\* the queue, and a value pushed after the terminal call is never
\* buffered or delivered.
C7_PushAfterTerminalNoOp ==
    [][/\ q.done => q'.done
       /\ (PushStep /\ q.done) => q' = q
       /\ Delivered(q') \subseteq Range(Accepted')]_vars

\* C7 witness: a push was made after the terminal call and the consumer
\* pulled after that push, receiving a terminal result.
C7_Witness ==
    /\ q.done
    /\ Len(hist) >= 2
    /\ LastCall(hist).op = "push"
    /\ \E i \in DOMAIN hist : hist[i].op \in {"complete", "fail"}
    /\ LastCall(hist).pulls < nPulls
    /\ Len(q.settled) = nPulls
    /\ q.settled[nPulls].kind # "value"

\* ------------------------------------------------ observations on Spec
\* a teardown trigger has occurred: a session.error event was handled,
\* session.send failed, or the caller called cleanup()
TeardownTriggered ==
    \/ caller.sessionErrors > 0
    \/ sendError # NoError
    \/ caller.cleanupCalls # <<>>

\* C8: over every interleaving of session.error events, a dispatch
\* failure and caller cleanup() calls (also calls made while destroy is
\* still awaited), session.destroy is invoked at most once, and exactly
\* once as soon as one trigger has occurred.
C8_DestroyExactlyOnce ==
    /\ CallCount("destroy") <= 1
    /\ TeardownTriggered => CallCount("destroy") = 1

\* C8 witness: a session.error event started the teardown, the caller
\* called cleanup() twice, once while destroy was still pending, and
\* destroy has been invoked once.
C8_Witness ==
    /\ caller.sessionErrors > 0
    /\ Len(caller.cleanupCalls) = 2
    /\ caller.cleanupCalls[1] = "pending"
    /\ CallCount("destroy") = 1

\* this step is a call of abort() by the caller
AbortStep == caller'.abortCalls = caller.abortCalls + 1

\* What abort() does to one queue (x before, y after): every suspended
\* pull is resolved with end-of-sequence, nothing is rejected, the buffer
\* is kept and the queue is terminal.
AbortCompletes(x, y) ==
    /\ y.done
    /\ y.resolvers = <<>> /\ y.rejecters = <<>>
    /\ y.queue = x.queue
    /\ Len(y.settled) = Len(x.settled) + Len(x.resolvers)
    /\ SubSeq(y.settled, 1, Len(x.settled)) = x.settled
    /\ \A i \in 1..Len(x.resolvers) :
           y.settled[Len(x.settled) + i] = Settle(x.resolvers[i], "done", Undefined)

EventStep == caller'.events = caller.events + 1

\* C10 (as stated): once the caller has invoked abort(), an event the
\* session emits changes nothing a consumer of either queue observes and
\* triggers nothing (no notice, no teardown, no call on the session).
C10_NoEventProcessedAfterAbort ==
    [][(caller.abortCalls > 0 /\ EventStep) =>
         /\ Observable(textQueue') = Observable(textQueue)
         /\ Observable(reasoningQueue') = Observable(reasoningQueue)
         /\ notices' = notices
         /\ cleanedUp' = cleanedUp
         /\ session' = session]_vars

\* ------------------------------------------------- teardown after abort
\* the handler has been unsubscribed and session.destroy() has been called
TornDown == ~session.subscribed /\ session.destroy # "none"

\* this step is a cleanup() call of the caller
CleanupStep == Len(caller'.cleanupCalls) = Len(caller.cleanupCalls) + 1

\* this step is a session.error event reaching the handler
SessionErrorStep == caller'.sessionErrors = caller.sessionErrors + 1

Positions(k) ==
    SelectSeq([i \in 1..Len(caller.log) |-> i],
              LAMBDA i : caller.log[i].kind = k)

\* abort() was called before the handler ran performCleanup
AbortBeforeTeardown ==
    \E i, j \in DOMAIN session.calls :
        i < j /\ session.calls[i] = "abort" /\ session.calls[j] = "unsubscribe"

\* scenario B: deltas, then a session.error event with data.message m;
\* session.send has not failed and abort() was not called before the event
ScenarioB(m) ==
    /\ caller.log # <<>>
    /\ caller.log[Len(caller.log)] = LogEntry("session.error", m)
    /\ \A i \in 1..(Len(caller.log) - 1) :
           caller.log[i].kind \in {"message_delta", "reasoning_delta"}
    /\ sendError = NoError
    /\ ~AbortBeforeTeardown

\* the consumer of x, pulling in order, has received `expected` and from
\* then on rejections with e only
ObservesThenFailure(x, expected, e) ==
    \A i \in DOMAIN x.settled :
        x.settled[i] = IF i <= Len(expected)
                       THEN Settle(i, "value", expected[i])
                       ELSE Settle(i, "error", e)

\* C12 (as stated): in scenario B with message M after k message deltas,
\* the text consumer observes all k deltas in order and then a failure with
\* M, the reasoning queue fails with the same error and session.destroy is
\* invoked exactly once.
C12_AllDeltasThenFailure ==
    \A m \in Messages :
        ScenarioB(m) =>
            /\ ObservesThenFailure(textQueue, Positions("message_delta"),
                                   StreamingError(m))
            /\ reasoningQueue.error = StreamingError(m)
            /\ CallCount("destroy") = 1

\* C12 (amended): in scenario B the text consumer observes, in order, the
\* message deltas that were not evicted by overflow and then only failures
\* with "Copilot streaming error: M"; both queues are terminal with that
\* error, the reasoning consumer observes the retained reasoning deltas and
\* then the same failure; session.destroy is invoked exactly once, also
\* after later cleanup() calls.
C12_RetainedDeltasThenFailure ==
    \A m \in Messages :
        ScenarioB(m) =>
            /\ ObservesThenFailure(
                   textQueue,
                   Without(Positions("message_delta"), textQueue.warned),
                   StreamingError(m))
            /\ ObservesThenFailure(
                   reasoningQueue,
                   Without(Positions("reasoning_delta"), reasoningQueue.warned),
                   StreamingError(m))
            /\ textQueue.done /\ textQueue.error = StreamingError(m)
            /\ reasoningQueue.done /\ reasoningQueue.error = StreamingError(m)
            /\ CallCount("destroy") = 1
            /\ CallCount("unsubscribe") = 1

\* one delta, then session.error "rate limited"; the text consumer has
\* received the delta and then the failure, the reasoning consumer the
\* failure, and the caller has called cleanup() afterwards
C12_Witness ==
    /\ ScenarioB("rate limited")
    /\ Len(caller.log) = 2
    /\ textQueue.settled =
           <<Settle(1, "value", 1),
             Settle(2, "error", "Copilot streaming error: rate limited")>>
    /\ reasoningQueue.settled =
           <<Settle(1, "error", "Copilot streaming error: rate limited")>>
    /\ caller.cleanupCalls # <<>>
    /\ CallCount("destroy") = 1

\* scenario A: message deltas only, then session.idle as the last event;
\* session.send has not failed, the caller has not called abort() and no
\* delta was evicted by overflow
ScenarioA ==
    /\ caller.log # <<>>
    /\ caller.log[Len(caller.log)].kind = "session.idle"
    /\ \A i \in 1..(Len(caller.log) - 1) : caller.log[i].kind = "message_delta"
    /\ sendError = NoError
    /\ caller.abortCalls = 0
    /\ textQueue.warned = <<>>

\* the consumer of x, pulling in order, has received `expected` and from
\* then on end-of-sequence only
ObservesThenDone(x, expected) ==
    \A i \in DOMAIN x.settled :
        x.settled[i] = IF i <= Len(expected)
                       THEN Settle(i, "value", expected[i])
                       ELSE Settle(i, "done", Undefined)

\* C13: in scenario A the text consumer observes exactly the deltas, in
\* emission order, and then end-of-sequence; the reasoning consumer
\* observes end-of-sequence only; both queues are complete without error.
C13_DeltasThenEndOfSequence ==
    ScenarioA =>
        /\ ObservesThenDone(textQueue, Positions("message_delta"))
        /\ ObservesThenDone(reasoningQueue, <<>>)
        /\ textQueue.done /\ textQueue.error = NoError
        /\ reasoningQueue.done /\ reasoningQueue.error = NoError
        /\ textQueue.resolvers = <<>> /\ reasoningQueue.resolvers = <<>>

\* a delta and session.idle have arrived; the text consumer has received
\* the delta and then end-of-sequence, the reasoning consumer
\* end-of-sequence
C13_Witness ==
    /\ ScenarioA
    /\ Len(caller.log) = 2
    /\ textQueue.settled =
           <<Settle(1, "value", 1), Settle(2, "done", Undefined)>>
    /\ reasoningQueue.settled = <<Settle(1, "done", Undefined)>>

\* ------------------------------------------------ validation and dispatch
\* no message of the conversation has the role user
NoUserRole(conv) == \A i \in DOMAIN conv : conv[i].role # "user"

\* C14: a copilot_sdk_streaming or copilot_sdk_completion call whose
\* conversation has no user message never calls client.createSession: no
\* session exists, nothing is sent or destroyed, and the call can only
\* reject (with the no-user-message error when the conversation is valid).
C14_NoUserMessageRejectsBeforeSession ==
    (input.fn \in CopilotFunctions /\ NoUserRole(input.conversation)) =>
        /\ backend = <<>>
        /\ session = NewSession
        /\ pc \in {"start", "rejected"}
        /\ pc = "start" => outcome = NoOutcome
        /\ pc = "rejected" =>
               outcome = IF ConversationValid(input.conversation)
                         THEN Rejected(NoUserMessageError)
                         ELSE Rejected(ValidationError)

\* a copilot_sdk_streaming call with a system message only has rejected
C14_Witness ==
    /\ input.fn = "copilot_sdk_streaming"
    /\ input.conversation = <<Msg("system", Text("s"))>>
    /\ pc = "rejected"
    /\ outcome = Rejected("No user message found in conversation")
    /\ backend = <<>>

\* the call has re-raised the error session.send rejected with
DispatchFailureRaised == pc = "rejected" /\ sendError # NoError

\* C15 (as stated): when the dispatch error has been re-raised to the
\* caller, both queues are failed with it, session.destroy has been invoked
\* and its promise has settled, and the caller has no result object.
C15_TornDownBeforeReraise ==
    DispatchFailureRaised =>
        /\ textQueue.done /\ textQueue.error = sendError
        /\ reasoningQueue.done /\ reasoningQueue.error = sendError
        /\ outcome = Rejected(sendError)
        /\ CallCount("destroy") = 1
        /\ session.destroy \in {"resolved", "rejected"}

\* some message has a role outside system / user / assistant or a content
\* that is not a string
Malformed(conv) ==
    \E i \in DOMAIN conv :
        \/ conv[i].role \notin {"system", "user", "assistant"}
        \/ conv[i].content.type # "string"

\* C16: in each of the five call shapes a malformed conversation makes the
\* call reject with the validation error before any backend entry point
\* (createSession, streamText, generateText, generateObject) is called.
C16_ValidationBeforeBackend ==
    Malformed(input.conversation) =>
        /\ backend = <<>>
        /\ session = NewSession
        /\ pc \in {"start", "rejected"}
        /\ pc = "start" => outcome = NoOutcome
        /\ pc = "rejected" => outcome = Rejected(ValidationError)

\* an ai_sdk_structured call with a non-text content has rejected
C16_Witness ==
    /\ input.fn = "ai_sdk_structured"
    /\ input.conversation = <<Msg("assistant", NotText), Msg("user", Text("a"))>>
    /\ pc = "rejected"
    /\ outcome = Rejected("ZodError")
    /\ backend = <<>>

\* ------------------------------------------------------ teardown failures
\* the promise of session.destroy() has settled
DestroySettled == session.destroy \in {"resolved", "rejected"}

\* C17: a rejection of session.destroy() reaches no caller: no cleanup()
\* promise is ever rejected and each is resolved once destroy has settled;
\* copilot_sdk_completion settles with the response text (or "") when
\* sendAndWait resolved and with the error of sendAndWait when it
\* rejected, however destroy settled; a dispatch failure of
\* copilot_sdk_streaming is re-raised as the dispatch error.
C17_DestroyFailureSwallowed ==
    /\ \A i \in DOMAIN caller.cleanupPromises :
           /\ caller.cleanupPromises[i] # "rejected"
           /\ DestroySettled => caller.cleanupPromises[i] = "resolved"
    /\ outcome.value # DestroyError
    /\ (input.fn = "copilot_sdk_completion" /\ DestroySettled) =>
           outcome =
               IF session.response.kind = "resolved"
               THEN Returned(IF session.response.value = Undefined THEN ""
                             ELSE session.response.value)
               ELSE Rejected(session.response.value)
    /\ (input.fn = "copilot_sdk_streaming" /\ DispatchFailureRaised) =>
           outcome = Rejected(sendError)

\* the caller's cleanup() call invoked session.destroy(), destroy has
\* rejected and the promise cleanup() returned is resolved
C17_Witness ==
    /\ caller.cleanupCalls = <<"none">>
    /\ session.destroy = "rejected"
    /\ caller.cleanupPromises = <<"resolved">>

\* ------------------------------------------------ copilot_sdk_completion
\* the call has settled
Settled == pc \in {"returned", "rejected"}

\* a copilot_sdk_completion call whose conversation passes validation and
\* has a user message
CompletionDispatched ==
    /\ input.fn = "copilot_sdk_completion"
    /\ ~Malformed(input.conversation)
    /\ ~NoUserRole(input.conversation)

\* C18: such a call calls client.createSession at most once and exactly
\* once by the time it settles; on the session it got it calls sendAndWait
\* once and then, after sendAndWait has settled with a response or with an
\* error, session.destroy exactly once; nothing is called on a session
\* when createSession itself rejected.
C18_OneSessionDestroyedOnce ==
    CompletionDispatched =>
        /\ Len(backend) <= 1
        /\ CallCount("destroy") <= 1
        /\ CallCount("destroy") = 1 => session.response.kind # "none"
        /\ Settled =>
               /\ backend = <<"createSession">>
               /\ IF outcome = Rejected(CreateSessionError)
                  THEN session = NewSession
                  ELSE /\ session.calls = <<"sendAndWait", "destroy">>
                       /\ DestroySettled

\* sendAndWait has rejected, the call has rejected with its error, and the
\* one session was destroyed once
C18_Witness ==
    /\ CompletionDispatched
    /\ pc = "rejected"
    /\ outcome = Rejected("sendAndWait failed")
    /\ backend = <<"createSession">>
    /\ session.calls = <<"sendAndWait", "destroy">>

\* --------------------------------------------------------- the prompt
MaxOf(S) == CHOOSE x \in S : \A y \in S : y <= x

\* the content of the message of role user with the largest index
LastUserContent(conv) ==
    conv[MaxOf({i \in DOMAIN conv : conv[i].role = "user"})].content

\* C19: copilot_sdk_streaming and copilot_sdk_completion pass at most one
\* prompt to the session (one send or one sendAndWait call), exactly one
\* once a session was created, and that prompt is the content of the last
\* message of role user; the other functions send no prompt.
C19_PromptIsLastUserMessage ==
    /\ Len(session.sent) = CallCount("send") + CallCount("sendAndWait")
    /\ Len(session.sent) <= 1
    /\ session.sent # <<>> =>
           /\ input.fn \in CopilotFunctions
           /\ ~NoUserRole(input.conversation)
           /\ session.sent = <<LastUserContent(input.conversation)>>
    /\ (input.fn \in CopilotFunctions /\ session # NewSession) =>
           Len(session.sent) = 1

\* copilot_sdk_streaming has returned for the conversation user "a",
\* user "b", assistant "x" and the one prompt sent is "b"
C19_Witness ==
    /\ input.fn = "copilot_sdk_streaming"
    /\ input.conversation =
           <<Msg("user", Text("a")), Msg("user", Text("b")),
             Msg("assistant", Text("x"))>>
    /\ pc = "returned"
    /\ session.sent = <<Text("b")>>

\* ------------------------------------------- session.error and the call
\* the errors the handler makes from a session.error event
StreamingErrors == {StreamingError(m) : m \in Messages}

\* C20: the handling of a session.error event leaves the position and the
\* outcome of the call as they were and stores the streaming error in both
\* queues; the call never rejects with a streaming error, and when
\* session.send has not failed a call that has settled has returned its
\* result object, also when the event arrived while send was pending.
C20_SessionErrorOnlyThroughQueues ==
    [][/\ SessionErrorStep =>
            /\ pc' = pc
            /\ outcome' = outcome
            /\ sendError' = sendError
            /\ textQueue'.error \in StreamingErrors
            /\ reasoningQueue'.error = textQueue'.error
       /\ outcome'.value \notin StreamingErrors
       /\ (caller'.sessionErrors > 0 /\ sendError' = NoError /\ Settled') =>
            outcome' = Returned(StreamResult)]_vars

\* a session.error arrived while session.send was pending, send then
\* resolved, the call returned its result object and the consumer's pull
\* on the text queue was rejected with the streaming error
C20_Witness ==
    /\ caller.errorsWhileSending = 1
    /\ pc = "returned"
    /\ outcome = Returned("CopilotStreamResult")
    /\ textQueue.settled =
           <<Settle(1, "error", "Copilot streaming error: rate limited")>>

\* ---------------------------------------------------- pull priority
\* this step is a next() call of the consumer
PullStep == nPulls' = nPulls + 1

\* C24: a pull on a non-empty buffer returns the oldest buffered value
\* and leaves done and error alone, whatever they are; on an empty buffer
\* it rejects with the stored error if there is one, else reports
\* end-of-sequence if the queue is done, else suspends (and settles
\* nothing).
C24_PullPriority ==
    [][PullStep =>
        LET p == nPulls + 1
        IN  /\ q'.done = q.done /\ q'.error = q.error
            /\ q.queue # <<>> =>
                   /\ q'.settled = Append(q.settled,
                                          Settle(p, "value", Head(q.queue)))
                   /\ q'.queue = Tail(q.queue)
                   /\ q'.resolvers = q.resolvers
            /\ (q.queue = <<>> /\ q.error # NoError) =>
                   /\ q'.settled = Append(q.settled, Settle(p, "error", q.error))
                   /\ q'.resolvers = q.resolvers
            /\ (q.queue = <<>> /\ q.error = NoError /\ q.done) =>
                   /\ q'.settled = Append(q.settled, Settle(p, "done", Undefined))
                   /\ q'.resolvers = q.resolvers
            /\ (q.queue = <<>> /\ q.error = NoError /\ ~q.done) =>
                   /\ q'.settled = q.settled
                   /\ q'.resolvers = Append(q.resolvers, p)
            /\ (q'.resolvers # q.resolvers) => (q.queue = <<>> /\ ~q.done)]_vars

\* push(1), fail(E1) with no pull made before, then two pulls: the first
\* returned the buffered value although the error was stored, the second
\* was rejected with the error
C24_Witness ==
    /\ hist = <<[op |-> "push", arg |-> 1, pulls |-> 0],
                [op |-> "fail", arg |-> "E1", pulls |-> 0]>>
    /\ q.settled = <<Settle(1, "value", 1), Settle(2, "error", "E1")>>

\* --------------------------------------------------- structure of a queue
\* C29: the pending resolvers and the pending rejecters are the same
\* pulls in the same order; while a pull is pending the buffer is empty
\* and the queue is not terminal (no done flag, no stored error).
C29_ResolversPairedWithRejecters ==
    /\ Len(q.resolvers) = Len(q.rejecters)
    /\ \A i \in DOMAIN q.resolvers : q.resolvers[i] = q.rejecters[i]
    /\ q.resolvers # <<>> =>
           /\ q.queue = <<>>
           /\ ~q.done
           /\ q.error = NoError

\* three pulls were made on an empty queue and a push has served the
\* first: the second and third are pending in both lists
C29_Witness ==
    /\ q.resolvers = <<2, 3>>
    /\ q.rejecters = <<2, 3>>
    /\ q.settled = <<Settle(1, "value", 1)>>

\* ------------------------------------------- a session error is terminal
\* the type of the latest event the handler has processed
LastEventKind == caller.log[Len(caller.log)].kind

\* C25: the handling of a session.error event ends with the handler
\* unsubscribed; from then on no event is processed: the session.error
\* stays the last processed event, it is the only one of its kind, one
\* notice was raised and one teardown (one unsubscribe, one destroy) made.
C25_SessionErrorIsLastEvent ==
    [][/\ SessionErrorStep => (~session'.subscribed /\ cleanedUp')
       /\ caller.sessionErrors > 0 =>
            /\ ~EventStep
            /\ ~session.subscribed
            /\ LastEventKind = "session.error"
            /\ caller.sessionErrors = 1
            /\ notices = 1 /\ notices' = 1
            /\ CallCount("unsubscribe") = 1
            /\ CallCount("destroy") = 1]_vars

\* a session.error was the first event; the call has returned, the text
\* consumer has been rejected, and the session could have delivered more
\* events had the handler stayed subscribed
C25_Witness ==
    /\ caller.sessionErrors = 1
    /\ caller.events = 1
    /\ caller.events < MaxEvents
    /\ pc = "returned"
    /\ ~session.subscribed
    /\ textQueue.settled # <<>>
    /\ textQueue.settled[1].kind = "error"

\* --------------------------------------- unsubscription and teardown
\* C26: in a copilot_sdk_streaming call unsubscribe is invoked at most
\* once, session.destroy as often as unsubscribe, and each destroy call
\* directly follows the unsubscribe call.
C26_UnsubscribePairedWithDestroy ==
    input.fn = "copilot_sdk_streaming" =>
        /\ CallCount("unsubscribe") <= 1
        /\ CallCount("destroy") = CallCount("unsubscribe")
        /\ \A i \in DOMAIN session.calls :
               session.calls[i] = "destroy" =>
                   (i > 1 /\ session.calls[i - 1] = "unsubscribe")
        /\ \A i \in DOMAIN session.calls :
               session.calls[i] = "unsubscribe" =>
                   (i < Len(session.calls) /\ session.calls[i + 1] = "destroy")
        /\ session.subscribed => CallCount("unsubscribe") = 0

\* the caller has called cleanup() twice after abort(): one unsubscribe
\* and one destroy were made
C26_Witness ==
    /\ session.calls = <<"on", "send", "abort", "unsubscribe", "destroy">>
    /\ Len(caller.cleanupCalls) = 2

\* ------------------------------------------------------- demultiplexing
\* this step is the handling of an event of type k
EventStepOf(k) ==
    caller'.log = Append(caller.log, LogEntry(k, Undefined))

\* nothing but the two queues: no notice, no teardown, no call on the
\* session, no change of the call
RouterFrame ==
    /\ notices' = notices
    /\ cleanedUp' = cleanedUp
    /\ session' = session
    /\ pc' = pc /\ outcome' = outcome

\* C28: a message delta is pushed on the text queue (one push of the
\* delta) and leaves the reasoning queue as it was; a reasoning delta is
\* pushed on the reasoning queue and leaves the text queue as it was;
\* neither changes a done flag or an error, raises a notice or tears down.
C28_DeltasDemultiplexed ==
    [][/\ EventStepOf("message_delta") =>
            /\ textQueue' = push(textQueue, caller.events + 1)
            /\ reasoningQueue' = reasoningQueue
            /\ textQueue'.done = textQueue.done
            /\ textQueue'.error = textQueue.error
            /\ RouterFrame
       /\ EventStepOf("reasoning_delta") =>
            /\ reasoningQueue' = push(reasoningQueue, caller.events + 1)
            /\ textQueue' = textQueue
            /\ reasoningQueue'.done = reasoningQueue.done
            /\ reasoningQueue'.error = reasoningQueue.error
            /\ RouterFrame]_vars

\* a message delta and then a reasoning delta have arrived: each is in
\* the buffer of its own queue only
C28_Witness ==
    /\ Len(caller.log) = 2
    /\ caller.log[1].kind = "message_delta"
    /\ caller.log[2].kind = "reasoning_delta"
    /\ textQueue.queue = <<1>>
    /\ reasoningQueue.queue = <<2>>

\* --------------------------------------------- the two queues together
\* C30: the two queues of a call are terminal together and store the same
\* error (or both none).
C30_QueuesTerminalTogether ==
    /\ textQueue.done = reasoningQueue.done
    /\ textQueue.error = reasoningQueue.error

\* a session.error failed both queues while session.send was pending and
\* the dispatch failure then stored its error in both
C30_Witness ==
    /\ caller.sessionErrors = 1
    /\ sendError # NoError
    /\ textQueue.done /\ reasoningQueue.done
    /\ textQueue.error = sendError
    /\ reasoningQueue.error = sendError

\* -------------------------------------------------------- ignored events
\* this step is the handling of an event the handler ignores
IgnoredStep == \E k \in IgnoredEvents : EventStepOf(k)

\* C27: the handling of a null event, of an event without a string type,
\* of an event of an unrecognized type and of a delta whose deltaContent
\* is not a string changes neither queue, nor cleanedUp, nor the
\* subscription, nor the call (nothing is thrown, no notice is raised);
\* the handler stays subscribed for the events that follow.
C27_IgnoredEventChangesNothing ==
    [][IgnoredStep =>
        /\ textQueue' = textQueue
        /\ reasoningQueue' = reasoningQueue
        /\ RouterFrame
        /\ session'.subscribed
        /\ sendError' = sendError]_vars

\* a malformed message delta was ignored, then a well-formed message
\* delta was pushed on the text queue and session.idle completed it
C27_Witness ==
    /\ Len(caller.log) = 3
    /\ caller.log[1].kind = "message_delta.malformed"
    /\ caller.log[2].kind = "message_delta"
    /\ caller.log[3].kind = "session.idle"
    /\ textQueue.queue = <<2>>
    /\ textQueue.done

\* ------------------------------------------------- ai_sdk_structured
\* C21 (as stated): whatever the provider family, a returned
\* ai_sdk_structured call has returned the object the backend produced
\* (response.object), not the result that wraps it.
C21_StructuredReturnsObject ==
    (input.fn = "ai_sdk_structured" /\ outcome.kind = "returned") =>
        outcome.value = ObjectOf(GenerateObjectResult)

\* ----------------------------------------------- error classification
\* some attempt recorded in the error was answered with status 429
ReportsRateLimit(error) ==
    error.hasErrors /\ 429 \in {error.errors[i] : i \in DOMAIN error.errors}

\* C22: each error passed to onError of ai_sdk_streaming raises exactly
\* one notice: the rate-limit notice if a status code the error reports
\* is 429, the unknown-error notice otherwise.
C22_RateLimitIffStatus429 ==
    /\ Len(caller.uiNotices) = Len(caller.providerErrors)
    /\ \A i \in DOMAIN caller.providerErrors :
           /\ caller.uiNotices[i] \in {"Rate limit exceeded",
                                       "Unknown error during streaming"}
           /\ caller.uiNotices[i] = "Rate limit exceeded"
                  <=> ReportsRateLimit(caller.providerErrors[i])

\* an error whose second attempt was answered with 429 raised the
\* rate-limit notice, an error with status 500 the unknown-error notice
C22_Witness ==
    /\ caller.providerErrors = <<ErrorsList(<<500, 429>>), ErrorsList(<<500>>)>>
    /\ caller.uiNotices = <<"Rate limit exceeded", "Unknown error during streaming">>

\* ------------------------------------------------ provider resolution
\* this step is a get_provider call
ProviderStep == resolved'.n = resolved.n + 1

\* the client field of the plugin that belongs to an eligible name other
\* than custom
ClientField(pl, name) ==
    CASE name = "openai" -> pl.openai_client
      [] name = "google" -> pl.google_client
      [] name = "anthropic" -> pl.anthropic_client
      [] name = "groq" -> pl.groq_client
      [] name = "ollama" -> pl.ollama_client
      [] name = "openrouter" -> pl.openrouter_client
      [] name = "perplexity" -> pl.perplexity_client
      [] name = "github-copilot" -> pl.copilot_client

\* an endpoint is configured for the current model of the plugin
EndpointConfigured(pl) ==
    pl.settings.model \in DOMAIN pl.settings.custom_endpoints

\* C23: get_provider throws for "custom" when no endpoint is configured
\* for the current model, and leaves the plugin (custom_client included)
\* as it was; it throws for a name outside the eligible list; for each
\* eligible name other than custom it returns the client stored in the
\* plugin and changes nothing; for "custom" with an endpoint configured it
\* returns a client built from that endpoint and key and stores it in
\* plugin.custom_client, changing nothing else.
C23_ProviderResolution ==
    [][ProviderStep =>
        LET name == resolved'.provider
        IN  /\ (name = "custom" /\ ~EndpointConfigured(plugin)) =>
                   /\ resolved'.kind = "thrown"
                   /\ plugin'.custom_client = plugin.custom_client
                   /\ plugin' = plugin
            /\ name \notin EligibleProviders =>
                   (resolved'.kind = "thrown" /\ plugin' = plugin)
            /\ name \in EligibleProviders \ {"custom"} =>
                   /\ resolved'.kind = "returned"
                   /\ resolved'.value = ClientField(plugin, name)
                   /\ plugin' = plugin
            /\ (name = "custom" /\ EndpointConfigured(plugin)) =>
                   /\ resolved'.kind = "returned"
                   /\ resolved'.value =
                          Client("custom",
                                 EndpointOf(plugin.settings.model).endpoint,
                                 EndpointOf(plugin.settings.model).api_key)
                   /\ plugin' = [plugin EXCEPT !.custom_client = resolved'.value]
       ]_vars

\* get_provider("custom") has thrown on a plugin without an endpoint for
\* the current model, and the custom client of an earlier resolution is
\* still stored
C23_Witness ==
    /\ resolved.provider = "custom"
    /\ resolved.kind = "thrown"
    /\ ~EndpointConfigured(plugin)
    /\ resolved.before.custom_client = OldClient
    /\ plugin.custom_client = OldClient

\* ------------------------------------------------ failure is permanent
\* queue x has failed: fail(e) was called on it
Failed(x) == x.error # NoError

\* queue y is queue x one step later and has kept the failure of x
StaysFailed(x, y) == Failed(x) => (y.error = x.error /\ y.done)

\* this step is a pull on the text queue / on the reasoning queue
PullTextStep == caller'.textPulls = caller.textPulls + 1
PullReasoningStep == caller'.reasoningPulls = caller.reasoningPulls + 1

\* the pull made in this step (number p) on a failed queue with an empty
\* buffer (x before, y after) was rejected with the error of the queue
PullFails(x, y, p) ==
    (Failed(x) /\ x.queue = <<>>) =>
        y.settled = Append(x.settled, Settle(p, "error", x.error))

\* C31: a failed queue stays failed. complete() applied to a failed queue
\* keeps its error; an abort() call or a session.idle event, and any other
\* step taken once the result object has been returned, leaves the error
\* of a failed text or reasoning queue as it is; a pull on a failed queue
\* whose buffer is drained is rejected with that error and never resolved
\* with end-of-sequence.
C31_FailedQueueStaysFailed ==
    [][/\ StaysFailed(textQueue, complete(textQueue))
       /\ StaysFailed(reasoningQueue, complete(reasoningQueue))
       /\ (AbortStep \/ EventStepOf("session.idle") \/ HasResult) =>
              /\ StaysFailed(textQueue, textQueue')
              /\ StaysFailed(reasoningQueue, reasoningQueue')
       /\ PullTextStep =>
              PullFails(textQueue, textQueue', caller'.textPulls)
       /\ PullReasoningStep =>
              PullFails(reasoningQueue, reasoningQueue', caller'.reasoningPulls)
      ]_vars

\* C31 witness: a delta was buffered, a session.error event failed the
\* queues and started the teardown, the caller called abort() after it,
\* and the text queue, pulled twice, gave the delta and then the error of
\* the event; both queues still hold that error.
C31_Witness ==
    /\ caller.sessionErrors = 1
    /\ caller.cleanupCalls = <<>>
    /\ \E i, j \in DOMAIN session.calls :
          i < j /\ session.calls[i] = "destroy" /\ session.calls[j] = "abort"
    /\ Failed(textQueue) /\ Failed(reasoningQueue)
    /\ reasoningQueue.error = textQueue.error
    /\ textQueue.queue = <<>>
    /\ Len(textQueue.settled) = 2
    /\ textQueue.settled[1].kind = "value"
    /\ textQueue.settled[2] = Settle(2, "error", textQueue.error)

\* ------------------------------------------- what a cleanup() promise means
\* C32 (as stated): whenever a promise returned by cleanup() is resolved,
\* session.destroy has finished (resolved or rejected), for every
\* cleanup() call, also one made while an earlier teardown still awaits
\* destroy.
C32_CleanupResolvedAfterDestroy ==
    \A i \in DOMAIN caller.cleanupPromises :
        caller.cleanupPromises[i] = "resolved" => DestroySettled

\* ------------------------------------------- calls on a torn-down session
\* method a was called on the session before method b
CalledBefore(a, b) ==
    \E i, j \in DOMAIN session.calls :
        i < j /\ session.calls[i] = a /\ session.calls[j] = b

\* C33 (as stated): session.abort() is never called once session.destroy
\* has been invoked, in whatever order the caller uses abort() and
\* cleanup() and whenever a session.error event arrives.
C33_NoAbortAfterDestroy == ~CalledBefore("destroy", "abort")

\* ------------------------------------------------ teardown is one-shot
\* the destroy of the teardown of a streaming call has failed
TeardownFailed ==
    input.fn = "copilot_sdk_streaming" /\ session.destroy = "rejected"

\* C34: teardown is attempted once and never retried. When the
\* session.destroy of the first teardown has failed the one-shot flag is
\* still set, unsubscribe and destroy have each been called once, and a
\* cleanup() call made from then on changes neither the flag nor the
\* session (no unsubscribe, no destroy, the failed destroy stays failed)
\* nor the queues, and returns a promise that is already resolved.
C34_TeardownNeverRetried ==
    [][/\ TeardownFailed =>
              /\ cleanedUp
              /\ CallCount("unsubscribe") = 1
              /\ CallCount("destroy") = 1
              /\ ~session.subscribed
       /\ (TeardownFailed /\ CleanupStep) =>
              /\ cleanedUp' = cleanedUp
              /\ session' = session
              /\ textQueue' = textQueue
              /\ reasoningQueue' = reasoningQueue
              /\ caller'.cleanupPromises =
                     Append(caller.cleanupPromises, "resolved")
      ]_vars

\* C34 witness: the caller's first cleanup() call started the teardown,
\* its session.destroy failed, and the caller called cleanup() again:
\* destroy and unsubscribe have still been called once
C34_Witness ==
    /\ caller.cleanupCalls = <<"none", "rejected">>
    /\ session.destroy = "rejected"
    /\ CallCount("destroy") = 1
    /\ CallCount("unsubscribe") = 1
    /\ cleanedUp

====
